---- MODULE Spec2Model ----
(***************************************************************************)
(* pdf_help: the page-range parser, the page-transformation services and   *)
(* the App component's state (workspace, interaction session, in-flight    *)
(* asynchronous handlers), modelled from App (src/unnamed/part_000) and    *)
(* services/pdfService (src/unnamed/part_002).                             *)
(*                                                                         *)
(* Strings are sequences of one-character strings.  A nullable React state *)
(* is modelled by a sentinel of the same type as its non-null values.      *)
(***************************************************************************)
EXTENDS Integers, Sequences, FiniteSets, TLC

VARIABLES
    files,              \* useState<PDFFile[]>: the workspace, in display order
    activeTool,         \* useState<AppTool>
    isProcessing,       \* useState(false)
    error,              \* useState<string | null>
    splitRanges,        \* useState<string>: the range expression typed by the user
    conversionProgress, \* useState<Record<string, ConversionProgress>>
    interactionState,   \* useState<PageInteractionState | null>
    draggingPageIndex,  \* useState<number | null>
    tasks,              \* the asynchronous handlers suspended at their await
    opIn,               \* arguments of a direct call of a pdfService function
    lastOp              \* the handler or service call that ran last, and its outcome

vars == <<files, activeTool, isProcessing, error, splitRanges, conversionProgress,
          interactionState, draggingPageIndex, tasks, opIn, lastOp>>

(***************************************************************************)
(* Bounds of the model.                                                    *)
(***************************************************************************)
MaxTokens == 3        \* comma-separated tokens in a range expression
MaxFiles == 2         \* files in the workspace
MaxDrop == 1          \* files handed to the uploader in one gesture
MaxOpPages == 5       \* pages of a document handed directly to a service function
MaxInFlight == 2      \* handlers suspended at an await at once, where they overlap
MaxMergeFiles == 3    \* files handed to a merge
MaxMergePages == 2    \* pages of a file handed to a merge
MaxRotatePages == 2   \* pages of a file handed to a rotation
MaxTextLen == 3       \* characters of a watermark text
MaxImages == 4        \* images handed to imagesToPDF

(***************************************************************************)
(* JavaScript string and array primitives used by the code.                *)
(***************************************************************************)
Digits == <<"0", "1", "2", "3", "4", "5", "6", "7", "8", "9">>

IsDigit(c) == \E i \in 1..Len(Digits) : Digits[i] = c

DigitValue(c) == (CHOOSE i \in 1..Len(Digits) : Digits[i] = c) - 1

IsSpace(c) == c \in {" ", "\t", "\n"}

RECURSIVE SplitAcc(_, _, _, _)
SplitAcc(s, sep, i, cur) ==
    IF i > Len(s) THEN <<cur>>
    ELSE IF s[i] = sep THEN <<cur>> \o SplitAcc(s, sep, i + 1, <<>>)
    ELSE SplitAcc(s, sep, i + 1, Append(cur, s[i]))

\* String.prototype.split(sep) for a one-character separator
split(s, sep) == SplitAcc(s, sep, 1, <<>>)

RECURSIVE trimStart(_)
trimStart(s) == IF s # <<>> /\ IsSpace(Head(s)) THEN trimStart(Tail(s)) ELSE s

RECURSIVE trimEnd(_)
trimEnd(s) ==
    IF s # <<>> /\ IsSpace(s[Len(s)]) THEN trimEnd(SubSeq(s, 1, Len(s) - 1)) ELSE s

\* String.prototype.trim()
trim(s) == trimEnd(trimStart(s))

RECURSIVE LeadingDigits(_)
LeadingDigits(s) ==
    IF s # <<>> /\ IsDigit(Head(s)) THEN <<Head(s)>> \o LeadingDigits(Tail(s)) ELSE <<>>

RECURSIVE DecimalValue(_)
DecimalValue(ds) ==
    IF ds = <<>> THEN 0
    ELSE 10 * DecimalValue(SubSeq(ds, 1, Len(ds) - 1)) + DigitValue(ds[Len(ds)])

NaN == [nan |-> TRUE, val |-> 0]

Num(v) == [nan |-> FALSE, val |-> v]

isNaN(x) == x.nan

\* parseInt(s): leading whitespace is skipped, one sign is accepted, then the
\* longest prefix of digits is read and whatever follows it is ignored; NaN
\* when there is no digit to read.
parseInt(s) ==
    LET t == trimStart(s)
        signed == t # <<>> /\ Head(t) \in {"-", "+"}
        body == IF signed THEN Tail(t) ELSE t
        ds == LeadingDigits(body)
    IN  IF ds = <<>> THEN NaN
        ELSE IF signed /\ Head(t) = "-" THEN Num(0 - DecimalValue(ds))
        ELSE Num(DecimalValue(ds))

Min(a, b) == IF a <= b THEN a ELSE b

Max(a, b) == IF a >= b THEN a ELSE b

\* for (let i = lo; i <= hi; i++) pages.push(i)
PushRange(lo, hi) == [k \in 1..(hi - lo + 1) |-> lo + k - 1]

RECURSIVE DedupeAcc(_, _)
DedupeAcc(s, seen) ==
    IF s = <<>> THEN <<>>
    ELSE IF Head(s) \in seen THEN DedupeAcc(Tail(s), seen)
    ELSE <<Head(s)>> \o DedupeAcc(Tail(s), seen \cup {Head(s)})

NoDedupe(s) == s

\* Array.from(new Set(s)): the first occurrence of every value, in order
Dedupe(s) == DedupeAcc(s, {})

RECURSIVE InsertAsc(_, _)
InsertAsc(x, s) ==
    IF s = <<>> THEN <<x>>
    ELSE IF x < Head(s) THEN <<x>> \o s
    ELSE <<Head(s)>> \o InsertAsc(x, Tail(s))

RECURSIVE SortAsc(_)
\* Array.prototype.sort((a, b) => a - b)
SortAsc(s) == IF s = <<>> THEN <<>> ELSE InsertAsc(Head(s), SortAsc(Tail(s)))

ToSet(s) == {s[i] : i \in 1..Len(s)}

(***************************************************************************)
(* The range parser: the parsedPages memo of App.                          *)
(***************************************************************************)
ExpandForward(start, end) == PushRange(start, end)

\* the values one range "start-end" pushes
ExpandRange(start, end) == PushRange(Min(start, end), Max(start, end))

\* the values one comma-separated part pushes onto pages
PartPages(part) ==
    LET range == split(trim(part), "-")
    IN  IF Len(range) = 2
        THEN LET start == parseInt(range[1])
                 end == parseInt(range[2])
             IN  IF ~isNaN(start) /\ ~isNaN(end)
                 THEN ExpandRange(start.val, end.val)
                 ELSE <<>>
        ELSE LET p == parseInt(part)
             IN  IF ~isNaN(p) THEN <<p.val>> ELSE <<>>

RECURSIVE PushAll(_)
PushAll(parts) ==
    IF parts = <<>> THEN <<>> ELSE PartPages(Head(parts)) \o PushAll(Tail(parts))

ParsePages(expr) ==
    IF trim(expr) = <<>> THEN <<>>
    ELSE SortAsc(Dedupe(PushAll(split(expr, ","))))

\* useMemo(..., [splitRanges])
parsedPages == ParsePages(splitRanges)

(***************************************************************************)
(* services/pdfService.  A document is the sequence of its pages; the      *)
(* pages of a source file of n pages are 0..n-1, so an output document is  *)
(* the sequence of original page indices it was built from.  A call either *)
(* returns a document or throws.                                           *)
(***************************************************************************)
Returned(pages) == [ok |-> TRUE, pages |-> pages]

Thrown == [ok |-> FALSE, pages |-> <<>>]

\* Array.from({ length: n }, (_, i) => i)
Identity(n) == [k \in 1..n |-> k - 1]

\* newPdf.copyPages(srcPdf, indices) followed by addPage of every copy: the
\* codec throws on an index that names no page of the source
copyPages(pageCount, indices) ==
    IF \A k \in 1..Len(indices) : indices[k] \in 0..(pageCount - 1)
    THEN Returned(indices)
    ELSE Thrown

\* a reorder that adds the copied pages last to first
reorderPDFPagesReversed(pageCount, newIndices) ==
    copyPages(pageCount, [k \in 1..Len(newIndices) |-> newIndices[Len(newIndices) + 1 - k]])

reorderPDFPages(pageCount, newIndices) == copyPages(pageCount, newIndices)

\* the pages of a document built by a service function from a source file
\* whose own pages are srcPages
PagesFrom(srcPages, result) ==
    IF result.ok THEN Returned([k \in 1..Len(result.pages) |-> srcPages[result.pages[k] + 1]])
    ELSE Thrown

\* a deletion that keeps the listed pages instead of the others
keepListedPages(pageCount, indicesToRemove) ==
    LET indicesToKeep == SelectSeq(Identity(pageCount), LAMBDA i : i \in ToSet(indicesToRemove))
    IN  IF indicesToKeep = <<>> THEN Thrown
        ELSE copyPages(pageCount, indicesToKeep)

removePagesFromPDF(pageCount, indicesToRemove) ==
    LET indicesToKeep == SelectSeq(Identity(pageCount), LAMBDA i : i \notin ToSet(indicesToRemove))
    IN  IF indicesToKeep = <<>> THEN Thrown
        ELSE copyPages(pageCount, indicesToKeep)

\* a split that takes the ordinals for page indices
splitPDFZeroBased(pageCount, pages) ==
    copyPages(pageCount, SelectSeq(pages, LAMBDA idx : idx >= 0 /\ idx < pageCount))

splitPDF(pageCount, pages) ==
    LET shifted == [k \in 1..Len(pages) |-> pages[k] - 1]
        indices == SelectSeq(shifted, LAMBDA idx : idx >= 0 /\ idx < pageCount)
    IN  copyPages(pageCount, indices)

\* the pages of the File of a workspace file: page i of file id is <<id, i>>
FileDoc(f) == [k \in 1..f.pageCount |-> <<f.id, k - 1>>]

RECURSIVE mergePDFsReversed(_)
\* a merge that takes the files last to first
mergePDFsReversed(docs) ==
    IF docs = <<>> THEN Returned(<<>>)
    ELSE LET pdfDoc == docs[Len(docs)]
             copiedPages == PagesFrom(pdfDoc, copyPages(Len(pdfDoc), Identity(Len(pdfDoc))))
         IN  Returned(copiedPages.pages \o mergePDFsReversed(SubSeq(docs, 1, Len(docs) - 1)).pages)

RECURSIVE mergePDFs(_)
\* for (const file of files): copyPages(pdfDoc, pdfDoc.getPageIndices()), addPage
mergePDFs(docs) ==
    IF docs = <<>> THEN Returned(<<>>)
    ELSE LET pdfDoc == Head(docs)
             copiedPages == PagesFrom(pdfDoc, copyPages(Len(pdfDoc), Identity(Len(pdfDoc))))
         IN  Returned(copiedPages.pages \o mergePDFs(Tail(docs)).pages)

\* a split whose loop starts at the second page
splitSkippingFirstPage(srcPages) ==
    [i \in 1..(Len(srcPages) - 1) |->
        PagesFrom(srcPages, copyPages(Len(srcPages), <<i>>)).pages]

\* splitToIndividualFiles on a file whose pages are srcPages: the data of the
\* results, one document per turn of the loop
splitToIndividualFiles(srcPages) ==
    [i \in 1..Len(srcPages) |->
        PagesFrom(srcPages, copyPages(Len(srcPages), <<i - 1>>)).pages]

\* the JavaScript remainder a % m for m > 0: it takes the sign of a
JsRemainder(a, m) == IF a >= 0 THEN a % m ELSE -((-a) % m)

\* the optional parameter pageNumbers of rotatePDF
NoPageNumbers == [given |-> FALSE, list |-> <<>>]

PageNumbers(list) == [given |-> TRUE, list |-> list]

RECURSIVE RotateEach(_, _, _)
\* indicesToRotate.forEach: setRotation(degrees((currentRotation + rotation) % 360))
RotateEach(rotations, indicesToRotate, rotation) ==
    IF indicesToRotate = <<>> THEN rotations
    ELSE LET idx == Head(indicesToRotate)
             currentRotation == rotations[idx + 1]
         IN  RotateEach([rotations EXCEPT ![idx + 1] = JsRemainder(currentRotation + rotation, 360)],
                        Tail(indicesToRotate), rotation)

\* the indicesToRotate of rotatePDF for a file of pageCount pages
IndicesToRotate(pageCount, pageNumbers) ==
    IF pageNumbers.given
    THEN SelectSeq([k \in 1..Len(pageNumbers.list) |-> pageNumbers.list[k] - 1],
                   LAMBDA idx : idx >= 0 /\ idx < pageCount)
    ELSE Identity(pageCount)

\* a rotation that sets the angle instead of adding to it
rotatePDFAbsolute(rotations, rotation, pageNumbers) ==
    Returned([k \in 1..Len(rotations) |->
                 IF (k - 1) \in ToSet(IndicesToRotate(Len(rotations), pageNumbers))
                 THEN rotation ELSE rotations[k]])

\* rotatePDF on a file whose pages have the rotation angles rotations: the
\* rotation angles of the pages of the result
rotatePDF(rotations, rotation, pageNumbers) ==
    Returned(RotateEach(rotations, IndicesToRotate(Len(rotations), pageNumbers), rotation))

\* applyWatermarkToPDF on a file of pageCount pages: the text drawn on each
\* page of the result
applyWatermarkToPDF(pageCount, text) == Returned([k \in 1..pageCount |-> text])

RECURSIVE ImagesLoop(_, _, _)
\* for (const file of imageFiles): arrayBuffer(), then try { embed, addPage,
\* drawImage } catch { console.error }.  The outcome of a file is
\* "unreadable" (arrayBuffer rejects), "rejected" (the embedding throws) or
\* "embedded"; pages are named by the file they show, logged is what
\* console.error was given.
ImagesLoop(imageFiles, pages, logged) ==
    IF imageFiles = <<>> THEN [ok |-> TRUE, pages |-> pages, logged |-> logged]
    ELSE LET file == Head(imageFiles)
         IN  IF file.outcome = "unreadable"
             THEN [ok |-> FALSE, pages |-> <<>>, logged |-> logged]
             ELSE IF file.outcome = "rejected"
             THEN ImagesLoop(Tail(imageFiles), pages, Append(logged, file.name))
             ELSE ImagesLoop(Tail(imageFiles), Append(pages, file.name), logged)

\* a batch that fails as a whole when one image cannot be embedded
imagesToPDFAborting(imageFiles) ==
    LET result == ImagesLoop(imageFiles, <<>>, <<>>)
    IN  IF result.logged # <<>>
        THEN [ok |-> FALSE, pages |-> <<>>, logged |-> result.logged]
        ELSE result

imagesToPDF(imageFiles) == ImagesLoop(imageFiles, <<>>, <<>>)

(***************************************************************************)
(* App: values of the state.                                               *)
(***************************************************************************)
Tools == {"merge", "split", "reorder", "delete-pages", "rotate", "watermark",
          "page-numbering", "pdf-to-image", "image-to-pdf", "pdf-to-text"}

NoError == "null"

NoDrag == -1

Undefined == -1

NoSession == [fileId |-> 0, pageIndices |-> <<>>, thumbnails |-> <<>>, selectedIndices |-> {}]

NoProgress == [id \in {} |-> [current |-> 0, total |-> 0]]

\* the File objects a user hands to the uploader while working with the page
\* grid: two PDFs of different page counts and a file the validation rejects
GridInputFiles ==
    { [mime |-> "application/pdf", pages |-> 4, oversize |-> FALSE],
      [mime |-> "application/pdf", pages |-> 2, oversize |-> FALSE],
      [mime |-> "text/plain", pages |-> 1, oversize |-> FALSE] }

\* the tools of the sidebar that lead to the page grid, and the initial one
GridTools == {"merge", "reorder", "delete-pages"}

RECURSIVE SeqsUpTo(_, _)
SeqsUpTo(S, n) ==
    IF n = 0 THEN {<<>>}
    ELSE LET shorter == SeqsUpTo(S, n - 1)
         IN  shorter \cup {Append(q, x) : q \in {r \in shorter : Len(r) = n - 1}, x \in S}

Task(kind, fileId, pageCount, arg) ==
    [kind |-> kind, fileId |-> fileId, pageCount |-> pageCount, current |-> 0, arg |-> arg]

Op(name, ok, arg, out) == [op |-> name, ok |-> ok, arg |-> arg, out |-> out]

NoOutput == Thrown

FileIds == {files[k].id : k \in 1..Len(files)}

\* files.find(f => f.id === id), for an id of the workspace
Find(id) == files[CHOOSE k \in 1..Len(files) : files[k].id = id]

SessionLive == interactionState # NoSession

RemoveAt(s, i) == SubSeq(s, 1, i - 1) \o SubSeq(s, i + 1, Len(s))

\* Math.random().toString(36): an id no file, task, session or progress entry uses
UsedIds ==
    FileIds \cup {tasks[k].fileId : k \in 1..Len(tasks)}
            \cup {interactionState.fileId} \cup DOMAIN conversionProgress

FreshId(used) == CHOOSE n \in 1..(Cardinality(used) + 1) : n \notin used

RECURSIVE Processed(_, _)
Processed(validFiles, used) ==
    IF validFiles = <<>> THEN <<>>
    ELSE LET f == Head(validFiles)
             id == FreshId(used)
             type == IF f.mime = "application/pdf" THEN "pdf" ELSE "image"
         IN  <<[id |-> id, type |-> type, pageCount |-> f.pages]>>
                 \o Processed(Tail(validFiles), used \cup {id})

(***************************************************************************)
(* App: what is rendered, that is, which handlers a user gesture can       *)
(* reach.  The "Optimizing..." overlay covers the whole page, so while it  *)
(* is shown no pointer gesture reaches a card of the grid (drag, drop,     *)
(* click).  It disables no control: a button still takes the keyboard.     *)
(***************************************************************************)
\* {isProcessing && files.length > 0 && (<div className="fixed inset-0 z-[100] ...
OverlayShown == isProcessing /\ Len(files) > 0

UploaderRendered == ~SessionLive

FileCardsRendered == Len(files) > 0 /\ activeTool \in {"merge", "image-to-pdf"}

\* PageGridInteraction without a session: one start button per file
StartButtonsRendered ==
    Len(files) > 0 /\ activeTool \in {"reorder", "delete-pages"} /\ ~SessionLive

\* PageGridInteraction with a session: one card per element of pageIndices,
\* within reach of the pointer
GridRendered(mode) ==
    /\ Len(files) > 0
    /\ SessionLive
    /\ ~OverlayShown
    /\ activeTool = (IF mode = "reorder" THEN "reorder" ELSE "delete-pages")

GridPositions == 0..(Len(interactionState.pageIndices) - 1)

\* the synchronous part of clearFiles
ClearFiles ==
    /\ files' = <<>>
    /\ conversionProgress' = NoProgress
    /\ interactionState' = NoSession

DeleteKey(progress, id) == [k \in (DOMAIN progress) \ {id} |-> progress[k]]

SetKey(progress, id, value) ==
    [k \in (DOMAIN progress) \cup {id} |-> IF k = id THEN value ELSE progress[k]]

(***************************************************************************)
(* App: workspace handlers.                                                *)
(***************************************************************************)
\* file.type.startsWith('image/')
IsImageType(mime) == mime \in {"image/png", "image/jpeg"}

\* the message the validation loop leaves for one file, NoError if it is valid
Rejection(f, isImageTool) ==
    IF ~isImageTool /\ f.mime # "application/pdf" THEN "is not a PDF file."
    ELSE IF isImageTool /\ ~IsImageType(f.mime) THEN "is not an image file."
    ELSE IF f.oversize THEN "exceeds the 50MB limit."
    ELSE NoError

RECURSIVE LastRejection(_, _, _)
LastRejection(newFiles, isImageTool, sofar) ==
    IF newFiles = <<>> THEN sofar
    ELSE LET r == Rejection(Head(newFiles), isImageTool)
         IN  LastRejection(Tail(newFiles), isImageTool, IF r = NoError THEN sofar ELSE r)

PendingIngest ==
    LET RECURSIVE Count(_)
        Count(k) == IF k = 0 THEN 0
                    ELSE Count(k - 1)
                         + (IF tasks[k].kind = "filesAdded" THEN Len(tasks[k].arg) ELSE 0)
    IN  Count(Len(tasks))

\* handleFilesAdded up to its await
HandleFilesAddedStart(newFiles) ==
    LET isImageTool == activeTool = "image-to-pdf"
        validFiles == SelectSeq(newFiles, LAMBDA f : Rejection(f, isImageTool) = NoError)
    IN  /\ UploaderRendered
        /\ error' = LastRejection(newFiles, isImageTool, error)
        /\ IF validFiles = <<>>
           THEN /\ lastOp' = Op("filesAdded", FALSE, <<>>, NoOutput)
                /\ UNCHANGED <<isProcessing, tasks>>
           ELSE /\ Len(files) + PendingIngest + Len(validFiles) <= MaxFiles
                /\ isProcessing' = TRUE
                /\ tasks' = Append(tasks, Task("filesAdded", 0, 0, validFiles))
                /\ lastOp' = Op("filesAdded:start", TRUE, <<>>, NoOutput)
        /\ UNCHANGED <<files, activeTool, splitRanges, conversionProgress,
                       interactionState, draggingPageIndex, opIn>>

\* handleFilesAdded from the await on: Promise.all of getPageCount settles
HandleFilesAddedFinish(t, codecOk) ==
    /\ tasks[t].kind = "filesAdded"
    /\ IF codecOk
       THEN /\ files' = files \o Processed(tasks[t].arg, UsedIds)
            /\ error' = error
       ELSE /\ files' = files
            /\ error' = "Failed to process some files."
    /\ isProcessing' = FALSE
    /\ tasks' = RemoveAt(tasks, t)
    /\ lastOp' = Op("filesAdded:done", codecOk, <<>>, NoOutput)
    /\ UNCHANGED <<activeTool, splitRanges, conversionProgress, interactionState,
                   draggingPageIndex, opIn>>

RemoveFile(id) ==
    /\ FileCardsRendered
    /\ id \in FileIds
    /\ files' = SelectSeq(files, LAMBDA f : f.id # id)
    /\ interactionState' = IF interactionState.fileId = id THEN NoSession ELSE interactionState
    /\ lastOp' = Op("removeFile", TRUE, <<>>, NoOutput)
    /\ UNCHANGED <<activeTool, isProcessing, error, splitRanges, conversionProgress,
                   draggingPageIndex, tasks, opIn>>

MoveFile(index, direction) ==
    LET targetIndex == IF direction = "up" THEN index - 1 ELSE index + 1
    IN  /\ FileCardsRendered
        /\ index \in 0..(Len(files) - 1)
        /\ IF targetIndex < 0 \/ targetIndex >= Len(files)
           THEN /\ files' = files
                /\ lastOp' = Op("moveFile", FALSE, <<>>, NoOutput)
           ELSE /\ files' = [files EXCEPT ![index + 1] = files[targetIndex + 1],
                                          ![targetIndex + 1] = files[index + 1]]
                /\ lastOp' = Op("moveFile", TRUE, <<>>, NoOutput)
        /\ UNCHANGED <<activeTool, isProcessing, error, splitRanges, conversionProgress,
                       interactionState, draggingPageIndex, tasks, opIn>>

\* the "Clear Workspace" button
ClearWorkspace ==
    /\ Len(files) > 0
    /\ ClearFiles
    /\ lastOp' = Op("clearFiles", TRUE, <<>>, NoOutput)
    /\ UNCHANGED <<activeTool, isProcessing, error, splitRanges, draggingPageIndex,
                   tasks, opIn>>

\* NavButton onClick: setActiveTool(tool); clearFiles()
NavButton(tool) ==
    /\ activeTool' = tool
    /\ ClearFiles
    /\ lastOp' = Op("setActiveTool", TRUE, <<>>, NoOutput)
    /\ UNCHANGED <<isProcessing, error, splitRanges, draggingPageIndex, tasks, opIn>>

\* the error banner's close button, or the 5 s timer of the error effect
DismissError ==
    /\ error # NoError
    /\ error' = NoError
    /\ lastOp' = Op("dismissError", TRUE, <<>>, NoOutput)
    /\ UNCHANGED <<files, activeTool, isProcessing, splitRanges, conversionProgress,
                   interactionState, draggingPageIndex, tasks, opIn>>

(***************************************************************************)
(* App: the interaction session (the reorder / delete page grid).          *)
(***************************************************************************)
\* handleStartThumbnailOperation up to its await
HandleStartThumbnailOperationStart(fileId) ==
    /\ StartButtonsRendered
    /\ fileId \in FileIds
    /\ isProcessing' = TRUE
    /\ tasks' = Append(tasks, Task("thumbnails", fileId, Find(fileId).pageCount,
                                   <<Find(fileId).type>>))
    /\ lastOp' = Op("open:start", TRUE, <<>>, NoOutput)
    /\ UNCHANGED <<files, activeTool, error, splitRanges, conversionProgress,
                   interactionState, draggingPageIndex, opIn>>

\* getPageThumbnails: one turn of the page loop, ending in onProgress(i, numPages)
ThumbnailPage(t) ==
    LET task == tasks[t]
    IN  /\ task.kind = "thumbnails"
        /\ task.arg = <<"pdf">>
        /\ task.current < task.pageCount
        /\ tasks' = [tasks EXCEPT ![t].current = task.current + 1]
        /\ conversionProgress' =
               SetKey(conversionProgress, task.fileId,
                      [current |-> task.current + 1, total |-> task.pageCount])
        /\ lastOp' = Op("open:page", TRUE, <<>>, NoOutput)
        /\ UNCHANGED <<files, activeTool, isProcessing, error, splitRanges,
                       interactionState, draggingPageIndex, opIn>>

\* the code after the await of handleStartThumbnailOperation: its finally block
ThumbnailFinally(t) ==
    /\ isProcessing' = FALSE
    /\ conversionProgress' = DeleteKey(conversionProgress, tasks[t].fileId)
    /\ tasks' = RemoveAt(tasks, t)

\* a session whose arrangement counts the pages from 1
ThumbnailDoneOneBased(t) ==
    LET task == tasks[t]
    IN  /\ task.kind = "thumbnails"
        /\ task.arg = <<"pdf">>
        /\ task.current = task.pageCount
        /\ interactionState' = [fileId |-> task.fileId,
                                pageIndices |-> [k \in 1..task.pageCount |-> k],
                                thumbnails |-> Identity(task.current),
                                selectedIndices |-> {}]
        /\ ThumbnailFinally(t)
        /\ lastOp' = Op("open", TRUE, <<>>, NoOutput)
        /\ UNCHANGED <<files, activeTool, error, splitRanges, draggingPageIndex, opIn>>

\* getPageThumbnails returns: every page was rendered
ThumbnailDone(t) ==
    LET task == tasks[t]
    IN  /\ task.kind = "thumbnails"
        /\ task.arg = <<"pdf">>
        /\ task.current = task.pageCount
        /\ interactionState' = [fileId |-> task.fileId,
                                pageIndices |-> Identity(task.pageCount),
                                thumbnails |-> Identity(task.current),
                                selectedIndices |-> {}]
        /\ ThumbnailFinally(t)
        /\ lastOp' = Op("open", TRUE, <<>>, NoOutput)
        /\ UNCHANGED <<files, activeTool, error, splitRanges, draggingPageIndex, opIn>>

\* a failure that leaves a session of the pages rendered so far
ThumbnailFailPartial(t) ==
    LET task == tasks[t]
    IN  /\ task.kind = "thumbnails"
        /\ task.arg # <<"pdf">> \/ task.current < task.pageCount
        /\ error' = "Thumbnail generation failed."
        /\ interactionState' = [fileId |-> task.fileId,
                                pageIndices |-> Identity(task.current),
                                thumbnails |-> Identity(task.current),
                                selectedIndices |-> {}]
        /\ ThumbnailFinally(t)
        /\ lastOp' = Op("open", FALSE, <<>>, NoOutput)
        /\ UNCHANGED <<files, activeTool, splitRanges, draggingPageIndex, opIn>>

\* getPageThumbnails throws: the file is no PDF, cannot be read, or the next
\* page gets no canvas context
ThumbnailFail(t) ==
    LET task == tasks[t]
    IN  /\ task.kind = "thumbnails"
        /\ task.arg # <<"pdf">> \/ task.current < task.pageCount
        /\ error' = "Thumbnail generation failed."
        /\ ThumbnailFinally(t)
        /\ lastOp' = Op("open", FALSE, <<>>, NoOutput)
        /\ UNCHANGED <<files, activeTool, splitRanges, interactionState,
                       draggingPageIndex, opIn>>

\* Array.prototype.splice(start, deleteCount, ...items): [removed, remaining]
Splice(arr, start, deleteCount, items) ==
    LET actualStart == Min(start, Len(arr))
        actualDelete == Min(deleteCount, Len(arr) - actualStart)
    IN  [removed |-> SubSeq(arr, actualStart + 1, actualStart + actualDelete),
         array |-> SubSeq(arr, 1, actualStart) \o items
                   \o SubSeq(arr, actualStart + actualDelete + 1, Len(arr))]

SwapIndices(pageIndices, from, dropIndex) ==
    IF from < Len(pageIndices) /\ dropIndex < Len(pageIndices)
    THEN [pageIndices EXCEPT ![from + 1] = pageIndices[dropIndex + 1],
                             ![dropIndex + 1] = pageIndices[from + 1]]
    ELSE pageIndices

\* the new pageIndices of handleReorderDrop
MoveIndices(pageIndices, from, dropIndex) ==
    LET taken == Splice(pageIndices, from, 1, <<>>)
        movedItem == IF taken.removed = <<>> THEN Undefined ELSE taken.removed[1]
    IN  Splice(taken.array, dropIndex, 0, <<movedItem>>).array

\* onDragStart of a card: setDraggingIndex(currIdx); only the reorder grid is
\* given setDraggingIndex
DragStart(currIdx) ==
    /\ GridRendered("reorder")
    /\ currIdx \in GridPositions
    /\ draggingPageIndex' = currIdx
    /\ lastOp' = Op("beginDrag", TRUE, <<>>, NoOutput)
    /\ UNCHANGED <<files, activeTool, isProcessing, error, splitRanges,
                   conversionProgress, interactionState, tasks, opIn>>

\* the drag ends without a drop on a card: no handler is registered for it
CancelDrag ==
    /\ GridRendered("reorder")
    /\ draggingPageIndex # NoDrag
    /\ lastOp' = Op("cancelDrag", TRUE, <<>>, NoOutput)
    /\ UNCHANGED <<files, activeTool, isProcessing, error, splitRanges,
                   conversionProgress, interactionState, draggingPageIndex, tasks, opIn>>

\* onDrop of a card: mode === 'reorder' && handleReorderDrop(currIdx)
HandleReorderDrop(dropIndex) ==
    /\ GridRendered("reorder")
    /\ dropIndex \in GridPositions
    /\ IF draggingPageIndex = NoDrag
       THEN /\ lastOp' = Op("drop", FALSE, <<>>, NoOutput)
            /\ UNCHANGED <<interactionState, draggingPageIndex>>
       ELSE /\ interactionState' =
                   [interactionState EXCEPT !.pageIndices =
                        MoveIndices(interactionState.pageIndices, draggingPageIndex, dropIndex)]
            /\ draggingPageIndex' = NoDrag
            /\ lastOp' = Op("drop", TRUE, <<draggingPageIndex, dropIndex>>, NoOutput)
    /\ UNCHANGED <<files, activeTool, isProcessing, error, splitRanges,
                   conversionProgress, tasks, opIn>>

\* a click that only ever selects
SelectIndex(selectedIndices, index) == selectedIndices \cup {index}

\* next.has(index) ? next.delete(index) : next.add(index)
ToggleIndex(selectedIndices, index) ==
    IF index \in selectedIndices THEN selectedIndices \ {index}
    ELSE selectedIndices \cup {index}

\* togglePageSelection, reached from the onClick of a card of the delete grid
TogglePageSelection(index) ==
    /\ GridRendered("delete")
    /\ index \in ToSet(interactionState.pageIndices)
    /\ interactionState' =
           [interactionState EXCEPT !.selectedIndices = ToggleIndex(@, index)]
    /\ lastOp' = Op("toggle", TRUE, <<index>>, NoOutput)
    /\ UNCHANGED <<files, activeTool, isProcessing, error, splitRanges,
                   conversionProgress, draggingPageIndex, tasks, opIn>>

\* onClick of a card: mode === 'delete' && onToggle(origIdx)
CardClick(origIdx) ==
    \/ TogglePageSelection(origIdx)
    \/ /\ GridRendered("reorder")
       /\ origIdx \in ToSet(interactionState.pageIndices)
       /\ lastOp' = Op("toggle", FALSE, <<origIdx>>, NoOutput)
       /\ UNCHANGED <<files, activeTool, isProcessing, error, splitRanges,
                      conversionProgress, interactionState, draggingPageIndex, tasks, opIn>>

\* the Cancel button: setInteractionState(null)
OnCancelInteraction ==
    /\ SessionLive
    /\ interactionState' = NoSession
    /\ lastOp' = Op("cancel", TRUE, <<>>, NoOutput)
    /\ UNCHANGED <<files, activeTool, isProcessing, error, splitRanges,
                   conversionProgress, draggingPageIndex, tasks, opIn>>

(***************************************************************************)
(* App: commit of a session (the "Commit Layout" / "Commit Deletion"       *)
(* button, onSaveInteraction).                                             *)
(***************************************************************************)
\* handleFinishReorder up to its await
HandleFinishReorderStart ==
    /\ SessionLive
    /\ activeTool = "reorder"
    /\ IF interactionState.fileId \notin FileIds
       THEN /\ lastOp' = Op("commitReorder", FALSE, <<>>, NoOutput)
            /\ UNCHANGED <<isProcessing, tasks>>
       ELSE /\ isProcessing' = TRUE
            /\ tasks' = Append(tasks, Task("finishReorder", interactionState.fileId,
                                           Find(interactionState.fileId).pageCount,
                                           interactionState.pageIndices))
            /\ lastOp' = Op("commitReorder:start", TRUE, <<>>, NoOutput)
    /\ UNCHANGED <<files, activeTool, error, splitRanges, conversionProgress,
                   interactionState, draggingPageIndex, opIn>>

\* handleFinishReorder from the await on; readOk: the file could be read and loaded
HandleFinishReorderFinish(t, readOk) ==
    LET task == tasks[t]
        result == IF readOk THEN reorderPDFPages(task.pageCount, task.arg) ELSE Thrown
    IN  /\ task.kind = "finishReorder"
        /\ error' = IF result.ok THEN error ELSE "Failed to reorder PDF pages."
        /\ isProcessing' = FALSE
        /\ tasks' = RemoveAt(tasks, t)
        /\ lastOp' = Op("commitReorder", result.ok, <<>>, result)
        /\ UNCHANGED <<files, activeTool, splitRanges, conversionProgress,
                       interactionState, draggingPageIndex, opIn>>

\* Array.from(interactionState.selectedIndices)
ArrayFrom(set) ==
    LET RECURSIVE Listed(_)
        Listed(rest) == IF rest = {} THEN <<>>
                        ELSE LET x == CHOOSE y \in rest : \A z \in rest : y <= z
                             IN  <<x>> \o Listed(rest \ {x})
    IN  Listed(set)

\* handleFinishDelete up to its await
HandleFinishDeleteStart ==
    /\ SessionLive
    /\ activeTool = "delete-pages"
    /\ IF interactionState.fileId \notin FileIds
       THEN /\ lastOp' = Op("commitDelete", FALSE, <<>>, NoOutput)
            /\ UNCHANGED <<isProcessing, error, tasks>>
       ELSE IF Cardinality(interactionState.selectedIndices) = 0
       THEN /\ error' = "Select pages to delete."
            /\ lastOp' = Op("commitDelete", FALSE, <<>>, NoOutput)
            /\ UNCHANGED <<isProcessing, tasks>>
       ELSE IF Cardinality(interactionState.selectedIndices)
                   = Find(interactionState.fileId).pageCount
       THEN /\ error' = "Cannot delete all pages."
            /\ lastOp' = Op("commitDelete", FALSE, <<>>, NoOutput)
            /\ UNCHANGED <<isProcessing, tasks>>
       ELSE /\ isProcessing' = TRUE
            /\ tasks' = Append(tasks, Task("finishDelete", interactionState.fileId,
                                           Find(interactionState.fileId).pageCount,
                                           ArrayFrom(interactionState.selectedIndices)))
            /\ lastOp' = Op("commitDelete:start", TRUE, <<>>, NoOutput)
            /\ error' = error
    /\ UNCHANGED <<files, activeTool, splitRanges, conversionProgress,
                   interactionState, draggingPageIndex, opIn>>

\* a commit that drops the session whatever the outcome
FinishDeleteDroppingSession(t, readOk) ==
    LET task == tasks[t]
        result == IF readOk THEN removePagesFromPDF(task.pageCount, task.arg) ELSE Thrown
    IN  /\ task.kind = "finishDelete"
        /\ interactionState' = NoSession
        /\ error' = IF result.ok THEN error ELSE "Failed to remove pages."
        /\ isProcessing' = FALSE
        /\ tasks' = RemoveAt(tasks, t)
        /\ lastOp' = Op("commitDelete", result.ok, task.arg, result)
        /\ UNCHANGED <<files, activeTool, splitRanges, conversionProgress,
                       draggingPageIndex, opIn>>

\* handleFinishDelete from the await on
HandleFinishDeleteFinish(t, readOk) ==
    LET task == tasks[t]
        result == IF readOk THEN removePagesFromPDF(task.pageCount, task.arg) ELSE Thrown
    IN  /\ task.kind = "finishDelete"
        /\ interactionState' = IF result.ok THEN NoSession ELSE interactionState
        /\ error' = IF result.ok THEN error ELSE "Failed to remove pages."
        /\ isProcessing' = FALSE
        /\ tasks' = RemoveAt(tasks, t)
        /\ lastOp' = Op("commitDelete", result.ok, task.arg, result)
        /\ UNCHANGED <<files, activeTool, splitRanges, conversionProgress,
                       draggingPageIndex, opIn>>

(***************************************************************************)
(* The App after construction, and its steps.                              *)
(***************************************************************************)
NoCall == [fn |-> "none", pageCount |-> 0, arg |-> <<>>]

Init ==
    /\ files = <<>>
    /\ activeTool = "merge"
    /\ isProcessing = FALSE
    /\ error = NoError
    /\ splitRanges = <<>>
    /\ conversionProgress = NoProgress
    /\ interactionState = NoSession
    /\ draggingPageIndex = NoDrag
    /\ tasks = <<>>
    /\ opIn = NoCall
    /\ lastOp = Op("none", TRUE, <<>>, NoOutput)

\* Section 5 of the specification: the caller starts no operation while
\* another one is in flight
SingleFlight == tasks = <<>>

\* the handlers suspended at an await
InFlight == Len(tasks)

Next ==
    \/ SingleFlight /\ \E newFiles \in SeqsUpTo(GridInputFiles, MaxDrop) \ {<<>>} :
                           HandleFilesAddedStart(newFiles)
    \/ \E t \in 1..Len(tasks), codecOk \in BOOLEAN : HandleFilesAddedFinish(t, codecOk)
    \/ \E id \in FileIds : RemoveFile(id)
    \/ \E index \in 0..(Len(files) - 1), direction \in {"up", "down"} : MoveFile(index, direction)
    \/ ClearWorkspace
    \/ \E tool \in GridTools : NavButton(tool)
    \/ DismissError
    \/ SingleFlight /\ \E fileId \in FileIds : HandleStartThumbnailOperationStart(fileId)
    \/ \E t \in 1..Len(tasks) : ThumbnailPage(t)
    \/ \E t \in 1..Len(tasks) : ThumbnailDone(t)
    \/ \E t \in 1..Len(tasks) : ThumbnailFail(t)
    \/ \E currIdx \in GridPositions : DragStart(currIdx)
    \/ CancelDrag
    \/ \E dropIndex \in GridPositions : HandleReorderDrop(dropIndex)
    \/ \E origIdx \in ToSet(interactionState.pageIndices) : CardClick(origIdx)
    \/ OnCancelInteraction
    \/ SingleFlight /\ HandleFinishReorderStart
    \/ \E t \in 1..Len(tasks), readOk \in BOOLEAN : HandleFinishReorderFinish(t, readOk)
    \/ SingleFlight /\ HandleFinishDeleteStart
    \/ \E t \in 1..Len(tasks), readOk \in BOOLEAN : HandleFinishDeleteFinish(t, readOk)

Spec == Init /\ [][Next]_vars

(***************************************************************************)
(* The split view: the range input and the Extract button.                 *)
(***************************************************************************)
SplitViewRendered == Len(files) > 0 /\ activeTool = "split"

\* onChange of the range input: setSplitRanges(e.target.value)
SetSplitRanges(expr) ==
    /\ SplitViewRendered
    /\ splitRanges' = expr
    /\ lastOp' = Op("setSplitRanges", TRUE, <<>>, NoOutput)
    /\ UNCHANGED <<files, activeTool, isProcessing, error, conversionProgress,
                   interactionState, draggingPageIndex, tasks, opIn>>

\* handleSplit up to its await; the Extract button is disabled while
\* parsedPages is empty
HandleSplitStart(fileId) ==
    /\ SplitViewRendered
    /\ Len(parsedPages) # 0
    /\ fileId \in FileIds
    /\ IF Len(parsedPages) = 0
       THEN /\ error' = "Enter page ranges."
            /\ lastOp' = Op("split", FALSE, <<>>, NoOutput)
            /\ UNCHANGED <<isProcessing, tasks>>
       ELSE /\ isProcessing' = TRUE
            /\ tasks' = Append(tasks, Task("split", fileId, Find(fileId).pageCount, parsedPages))
            /\ lastOp' = Op("split:start", TRUE, <<>>, NoOutput)
            /\ error' = error
    /\ UNCHANGED <<files, activeTool, splitRanges, conversionProgress,
                   interactionState, draggingPageIndex, opIn>>

\* handleSplit from the await on
HandleSplitFinish(t, readOk) ==
    LET task == tasks[t]
        result == IF readOk THEN splitPDF(task.pageCount, task.arg) ELSE Thrown
    IN  /\ task.kind = "split"
        /\ error' = IF result.ok THEN error ELSE "Extraction failed."
        /\ isProcessing' = FALSE
        /\ tasks' = RemoveAt(tasks, t)
        /\ lastOp' = Op("split", result.ok, task.arg, result)
        /\ UNCHANGED <<files, activeTool, splitRanges, conversionProgress,
                       interactionState, draggingPageIndex, opIn>>

RECURSIVE Join(_, _)
\* the tokens of an expression, written with sep between them
Join(tokens, sep) ==
    IF Len(tokens) = 0 THEN <<>>
    ELSE IF Len(tokens) = 1 THEN tokens[1]
    ELSE tokens[1] \o <<sep>> \o Join(Tail(tokens), sep)

\* tokens a user types between commas: integers, ranges in both orders,
\* and malformed ones
Tokens ==
    { <<"1">>,
      <<"2">>,
      <<"3">>,
      <<"9">>,
      <<"5", "-", "1", "0">>,
      <<"5", "-", "3">>,
      <<"3", "-", "5">>,
      <<"a", "b", "c">>,
      <<"5", "x">>,
      <<"1", "-", "2", "-", "3">>,
      <<"3", "-">>,
      <<" ", "2", " ">>,
      <<"8", " ", "-", " ", "6">>,
      <<>>,
      <<"-", "3">> }

Expressions == {Join(ts, ",") : ts \in SeqsUpTo(Tokens, MaxTokens) \ {<<>>}}

\* range expressions typed against the 5-page document of the split view
SplitTokens == {<<"0">>, <<"2">>, <<"4">>, <<"9">>}

SplitExpressions == {Join(ts, ",") : ts \in SeqsUpTo(SplitTokens, MaxTokens)}

\* the App with one 5-page PDF in the workspace of the split tool
InitSplit ==
    /\ files = <<[id |-> 1, type |-> "pdf", pageCount |-> 5]>>
    /\ activeTool = "split"
    /\ isProcessing = FALSE
    /\ error = NoError
    /\ splitRanges = <<>>
    /\ conversionProgress = NoProgress
    /\ interactionState = NoSession
    /\ draggingPageIndex = NoDrag
    /\ tasks = <<>>
    /\ opIn = NoCall
    /\ lastOp = Op("none", TRUE, <<>>, NoOutput)

\* an expression is typed into the empty input, and the input is emptied again
NextParse ==
    \/ splitRanges = <<>> /\ \E expr \in Expressions : SetSplitRanges(expr)
    \/ splitRanges # <<>> /\ SetSplitRanges(<<>>)

\* the range parser applied to every expression of Expressions
SpecParse == InitSplit /\ [][NextParse]_vars

NextSplit ==
    \/ \E expr \in SplitExpressions : SetSplitRanges(expr)
    \/ SingleFlight /\ \E fileId \in FileIds : HandleSplitStart(fileId)
    \/ \E t \in 1..Len(tasks), readOk \in BOOLEAN : HandleSplitFinish(t, readOk)
    \/ DismissError

\* the split view at work
SpecSplit == InitSplit /\ [][NextSplit]_vars

(***************************************************************************)
(* Direct calls of the service functions.                                  *)
(***************************************************************************)
Call(fn, pageCount, arg) == [fn |-> fn, pageCount |-> pageCount, arg |-> arg]

\* documents of 1..MaxOpPages pages, with every array of page indices or
\* ordinals in 0..MaxOpPages, in ascending order
OpCalls ==
    {Call(fn, n, ArrayFrom(set)) :
        fn \in {"removePagesFromPDF", "splitPDF"},
        n \in 1..MaxOpPages,
        set \in SUBSET (0..MaxOpPages)}

InitOps ==
    /\ files = <<>>
    /\ activeTool = "merge"
    /\ isProcessing = FALSE
    /\ error = NoError
    /\ splitRanges = <<>>
    /\ conversionProgress = NoProgress
    /\ interactionState = NoSession
    /\ draggingPageIndex = NoDrag
    /\ tasks = <<>>
    /\ opIn \in OpCalls
    /\ lastOp = Op("none", TRUE, <<>>, NoOutput)

Returns(result) ==
    /\ lastOp.op = "none"
    /\ lastOp' = Op(opIn.fn, result.ok, <<>>, result)
    /\ UNCHANGED <<files, activeTool, isProcessing, error, splitRanges, conversionProgress,
                   interactionState, draggingPageIndex, tasks, opIn>>

CallRemovePagesFromPDF ==
    /\ opIn.fn = "removePagesFromPDF"
    /\ Returns(removePagesFromPDF(opIn.pageCount, opIn.arg))

CallSplitPDF ==
    /\ opIn.fn = "splitPDF"
    /\ Returns(splitPDF(opIn.pageCount, opIn.arg))

NextOps ==
    \/ CallRemovePagesFromPDF
    \/ CallSplitPDF

SpecOps == InitOps /\ [][NextOps]_vars

(***************************************************************************)
(* removePagesFromPDF, called directly and by the commit of a delete       *)
(* session.                                                                *)
(***************************************************************************)
\* a direct call on a document of 1..MaxOpPages pages
InitDeleteCall ==
    /\ InitOps
    /\ opIn.fn = "removePagesFromPDF"

\* the App with the delete grid of one PDF of 1..MaxOpPages pages open and
\* some of its pages selected
InitDeleteSession ==
    \E n \in 1..MaxOpPages, selected \in SUBSET (0..(MaxOpPages - 1)) :
        /\ selected \subseteq 0..(n - 1)
        /\ files = <<[id |-> 1, type |-> "pdf", pageCount |-> n]>>
        /\ activeTool = "delete-pages"
        /\ isProcessing = FALSE
        /\ error = NoError
        /\ splitRanges = <<>>
        /\ conversionProgress = NoProgress
        /\ interactionState = [fileId |-> 1, pageIndices |-> Identity(n),
                               thumbnails |-> Identity(n), selectedIndices |-> selected]
        /\ draggingPageIndex = NoDrag
        /\ tasks = <<>>
        /\ opIn = NoCall
        /\ lastOp = Op("none", TRUE, <<>>, NoOutput)

InitDelete == InitDeleteCall \/ InitDeleteSession

NextDelete ==
    \/ CallRemovePagesFromPDF
    \/ \E index \in ToSet(interactionState.pageIndices) : TogglePageSelection(index)
    \/ SingleFlight /\ HandleFinishDeleteStart
    \/ \E t \in 1..Len(tasks), readOk \in BOOLEAN : HandleFinishDeleteFinish(t, readOk)
    \/ DismissError

SpecDelete == InitDelete /\ [][NextDelete]_vars

(***************************************************************************)
(* reorderPDFPages, called on a document and then on its result.           *)
(***************************************************************************)
\* the arrays that list every index of a document of n pages once
IndexPermutations(n) ==
    {p \in [1..n -> 0..(n - 1)] : \A i, j \in 1..n : p[i] = p[j] => i = j}

\* the permutation that undoes p: its entry for page index i is the position of i in p
Inverse(p) == [k \in 1..Len(p) |-> (CHOOSE j \in 1..Len(p) : p[j] = k - 1) - 1]

InitReorder ==
    /\ files = <<>>
    /\ activeTool = "merge"
    /\ isProcessing = FALSE
    /\ error = NoError
    /\ splitRanges = <<>>
    /\ conversionProgress = NoProgress
    /\ interactionState = NoSession
    /\ draggingPageIndex = NoDrag
    /\ tasks = <<>>
    /\ \E n \in 1..MaxOpPages : \E p \in IndexPermutations(n) :
           opIn = Call("reorderPDFPages", n, p)
    /\ lastOp = Op("none", TRUE, <<>>, NoOutput)

CallReorderPDFPages ==
    /\ opIn.fn = "reorderPDFPages"
    /\ Returns(reorderPDFPages(opIn.pageCount, opIn.arg))

\* reorderPDFPages on the document the first call returned, with the inverse
\* of the first call's indices
CallReorderPDFPagesBack ==
    LET first == lastOp.out
        second == reorderPDFPages(Len(first.pages), Inverse(opIn.arg))
    IN  /\ lastOp.op = "reorderPDFPages"
        /\ lastOp.ok
        /\ lastOp' = Op("reorderPDFPages:back", second.ok, Inverse(opIn.arg),
                        PagesFrom(first.pages, second))
        /\ UNCHANGED <<files, activeTool, isProcessing, error, splitRanges,
                       conversionProgress, interactionState, draggingPageIndex, tasks, opIn>>

NextReorder ==
    \/ CallReorderPDFPages
    \/ CallReorderPDFPagesBack

SpecReorder == InitReorder /\ [][NextReorder]_vars

(***************************************************************************)
(* mergePDFs, called directly and by the "Merge Sequence" button.          *)
(***************************************************************************)
\* the "Merge Sequence" button: disabled={files.length < 2 || isProcessing}
MergeButtonEnabled ==
    /\ activeTool = "merge"
    /\ ~SessionLive
    /\ ~(Len(files) < 2 \/ isProcessing)

\* files.map(f => f.file), each file named by its id and page count
Listed(fs) == [k \in 1..Len(fs) |-> [id |-> fs[k].id, pageCount |-> fs[k].pageCount]]

\* handleMerge up to its await
HandleMergeStart ==
    /\ MergeButtonEnabled
    /\ IF Len(files) < 2
       THEN /\ lastOp' = Op("merge", FALSE, Listed(files), NoOutput)
            /\ UNCHANGED <<isProcessing, tasks>>
       ELSE /\ isProcessing' = TRUE
            /\ tasks' = Append(tasks, Task("merge", 0, 0, Listed(files)))
            /\ lastOp' = Op("merge:start", TRUE, <<>>, NoOutput)
    /\ UNCHANGED <<files, activeTool, error, splitRanges, conversionProgress,
                   interactionState, draggingPageIndex, opIn>>

\* handleMerge from the await on; readOk: every file could be read and loaded
HandleMergeFinish(t, readOk) ==
    LET task == tasks[t]
        docs == [k \in 1..Len(task.arg) |-> FileDoc(task.arg[k])]
        result == IF readOk THEN mergePDFs(docs) ELSE Thrown
    IN  /\ task.kind = "merge"
        /\ error' = IF result.ok THEN error ELSE "Failed to merge PDFs."
        /\ isProcessing' = FALSE
        /\ tasks' = RemoveAt(tasks, t)
        /\ lastOp' = Op("merge", result.ok, task.arg, result)
        /\ UNCHANGED <<files, activeTool, splitRanges, conversionProgress,
                       interactionState, draggingPageIndex, opIn>>

\* the lists of up to MaxMergeFiles PDFs of 1..MaxMergePages pages, with the
\* ids 1, 2, ... in the order of the list
MergeLists ==
    {[k \in 1..Len(counts) |-> [id |-> k, type |-> "pdf", pageCount |-> counts[k]]] :
        counts \in SeqsUpTo(1..MaxMergePages, MaxMergeFiles)}

\* a direct call of mergePDFs on a list of files
InitMergeCall ==
    /\ files = <<>>
    /\ activeTool = "merge"
    /\ isProcessing = FALSE
    /\ error = NoError
    /\ splitRanges = <<>>
    /\ conversionProgress = NoProgress
    /\ interactionState = NoSession
    /\ draggingPageIndex = NoDrag
    /\ tasks = <<>>
    /\ \E fs \in MergeLists : opIn = Call("mergePDFs", Len(fs), Listed(fs))
    /\ lastOp = Op("none", TRUE, <<>>, NoOutput)

\* the App with a list of PDFs in the workspace of the merge tool
InitMergeWorkspace ==
    /\ files \in MergeLists
    /\ activeTool = "merge"
    /\ isProcessing = FALSE
    /\ error = NoError
    /\ splitRanges = <<>>
    /\ conversionProgress = NoProgress
    /\ interactionState = NoSession
    /\ draggingPageIndex = NoDrag
    /\ tasks = <<>>
    /\ opIn = NoCall
    /\ lastOp = Op("none", TRUE, <<>>, NoOutput)

InitMerge == InitMergeCall \/ InitMergeWorkspace

CallMergePDFs ==
    LET docs == [k \in 1..Len(opIn.arg) |-> FileDoc(opIn.arg[k])]
        result == mergePDFs(docs)
    IN  /\ opIn.fn = "mergePDFs"
        /\ lastOp.op = "none"
        /\ lastOp' = Op("mergePDFs", result.ok, opIn.arg, result)
        /\ UNCHANGED <<files, activeTool, isProcessing, error, splitRanges,
                       conversionProgress, interactionState, draggingPageIndex, tasks, opIn>>

NextMerge ==
    \/ CallMergePDFs
    \/ SingleFlight /\ HandleMergeStart
    \/ \E t \in 1..Len(tasks), readOk \in BOOLEAN : HandleMergeFinish(t, readOk)
    \/ \E id \in FileIds : RemoveFile(id)
    \/ \E index \in 0..(Len(files) - 1), direction \in {"up", "down"} : MoveFile(index, direction)
    \/ DismissError

SpecMerge == InitMerge /\ [][NextMerge]_vars

(***************************************************************************)
(* splitToIndividualFiles, and mergePDFs on its results.                   *)
(***************************************************************************)
\* a file of 1..MaxOpPages pages whose pages are the contents 0, 1, ... in
\* some order
InitSingles ==
    /\ files = <<>>
    /\ activeTool = "merge"
    /\ isProcessing = FALSE
    /\ error = NoError
    /\ splitRanges = <<>>
    /\ conversionProgress = NoProgress
    /\ interactionState = NoSession
    /\ draggingPageIndex = NoDrag
    /\ tasks = <<>>
    /\ \E n \in 1..MaxOpPages : \E srcPages \in IndexPermutations(n) :
           opIn = Call("splitToIndividualFiles", n, srcPages)
    /\ lastOp = Op("none", TRUE, <<>>, NoOutput)

CallSplitToIndividualFiles ==
    /\ opIn.fn = "splitToIndividualFiles"
    /\ Returns(Returned(splitToIndividualFiles(opIn.arg)))

\* mergePDFs on the results of splitToIndividualFiles, in the order returned
CallMergePDFsOfSingles ==
    LET results == lastOp.out.pages
        merged == mergePDFs(results)
    IN  /\ lastOp.op = "splitToIndividualFiles"
        /\ lastOp' = Op("mergePDFs:singles", merged.ok, <<>>, merged)
        /\ UNCHANGED <<files, activeTool, isProcessing, error, splitRanges,
                       conversionProgress, interactionState, draggingPageIndex, tasks, opIn>>

NextSingles ==
    \/ CallSplitToIndividualFiles
    \/ CallMergePDFsOfSingles

SpecSingles == InitSingles /\ [][NextSingles]_vars

(***************************************************************************)
(* rotatePDF, called again and again on its own result, the way the        *)
(* buttons of the rotate view call it.                                     *)
(***************************************************************************)
\* the /Rotate angles of the pages of the files handed in
FileRotations == {-180, -90, 0, 90}

\* RotateBtn: onRotate(f.id, 90), onRotate(f.id, 180), onRotate(f.id, 270)
ButtonRotations == {90, 180, 270}

\* parsedPages.length > 0 ? parsedPages : undefined
RotateTargets ==
    {NoPageNumbers} \cup
    {PageNumbers(ArrayFrom(set)) : set \in (SUBSET (1..(MaxRotatePages + 1))) \ {{}}}

\* opIn.arg: the rotation angles of the pages of the file at hand.
\* lastOp.arg: the rotation of the last call and how many calls in a row,
\* this one included, rotated every page by 90; lastOp.out: the rotation
\* angles before the first call of that row.
InitRotate ==
    /\ files = <<>>
    /\ activeTool = "rotate"
    /\ isProcessing = FALSE
    /\ error = NoError
    /\ splitRanges = <<>>
    /\ conversionProgress = NoProgress
    /\ interactionState = NoSession
    /\ draggingPageIndex = NoDrag
    /\ tasks = <<>>
    /\ \E n \in 1..MaxRotatePages : \E rotations \in [1..n -> FileRotations] :
           opIn = Call("rotatePDF", n, rotations)
    /\ lastOp = Op("none", TRUE, <<0, 0>>, NoOutput)

CallRotatePDF(rotation, pageNumbers) ==
    LET result == rotatePDF(opIn.arg, rotation, pageNumbers)
        inRow == rotation = 90 /\ ~pageNumbers.given
        row == IF ~inRow THEN 0
               ELSE IF lastOp.arg[2] \in 1..3 THEN lastOp.arg[2] + 1 ELSE 1
    IN  /\ opIn.fn = "rotatePDF"
        /\ opIn' = [opIn EXCEPT !.arg = result.pages]
        /\ lastOp' = Op("rotatePDF", result.ok, <<rotation, row>>,
                        IF row = 0 THEN NoOutput
                        ELSE IF row = 1 THEN Returned(opIn.arg) ELSE lastOp.out)
        /\ UNCHANGED <<files, activeTool, isProcessing, error, splitRanges,
                       conversionProgress, interactionState, draggingPageIndex, tasks>>

NextRotate ==
    \E rotation \in ButtonRotations, pageNumbers \in RotateTargets :
        CallRotatePDF(rotation, pageNumbers)

SpecRotate == InitRotate /\ [][NextRotate]_vars

(***************************************************************************)
(* applyWatermarkToPDF, called directly and by the "Apply Stamp" button.   *)
(***************************************************************************)
\* watermark texts of blanks, tabs and letters
WatermarkTexts == SeqsUpTo({" ", "\t", "A"}, MaxTextLen)

\* the App with one PDF in the workspace of the watermark tool; opIn.arg is
\* the text: the parameter of a direct call, or watermarkConfig.text when
\* the button is pressed
InitWatermark ==
    /\ \E n \in 1..MaxRotatePages : files = <<[id |-> 1, type |-> "pdf", pageCount |-> n]>>
    /\ activeTool = "watermark"
    /\ isProcessing = FALSE
    /\ error = NoError
    /\ splitRanges = <<>>
    /\ conversionProgress = NoProgress
    /\ interactionState = NoSession
    /\ draggingPageIndex = NoDrag
    /\ tasks = <<>>
    /\ \E fn \in {"applyWatermarkToPDF", "handleApplyWatermark"}, text \in WatermarkTexts :
           opIn = Call(fn, files[1].pageCount, text)
    /\ lastOp = Op("none", TRUE, <<>>, NoOutput)

CallApplyWatermarkToPDF ==
    /\ opIn.fn = "applyWatermarkToPDF"
    /\ Returns(applyWatermarkToPDF(opIn.pageCount, opIn.arg))

\* handleApplyWatermark up to its await
HandleApplyWatermarkStart(fileId) ==
    LET text == opIn.arg
    IN  /\ opIn.fn = "handleApplyWatermark"
        /\ activeTool = "watermark"
        /\ fileId \in FileIds
        /\ IF trim(text) = <<>>
           THEN /\ lastOp' = Op("watermark", FALSE, <<>>, NoOutput)
                /\ UNCHANGED <<isProcessing, tasks>>
           ELSE /\ isProcessing' = TRUE
                /\ tasks' = Append(tasks, Task("watermark", fileId, Find(fileId).pageCount, text))
                /\ lastOp' = Op("watermark:start", TRUE, <<>>, NoOutput)
        /\ UNCHANGED <<files, activeTool, error, splitRanges, conversionProgress,
                       interactionState, draggingPageIndex, opIn>>

\* handleApplyWatermark from the await on
HandleApplyWatermarkFinish(t, readOk) ==
    LET task == tasks[t]
        result == IF readOk THEN applyWatermarkToPDF(task.pageCount, task.arg) ELSE Thrown
    IN  /\ task.kind = "watermark"
        /\ error' = IF result.ok THEN error ELSE "Watermark failed."
        /\ isProcessing' = FALSE
        /\ tasks' = RemoveAt(tasks, t)
        /\ lastOp' = Op("watermark", result.ok, <<>>, result)
        /\ UNCHANGED <<files, activeTool, splitRanges, conversionProgress,
                       interactionState, draggingPageIndex, opIn>>

NextWatermark ==
    \/ CallApplyWatermarkToPDF
    \/ SingleFlight /\ \E fileId \in FileIds : HandleApplyWatermarkStart(fileId)
    \/ \E t \in 1..Len(tasks), readOk \in BOOLEAN : HandleApplyWatermarkFinish(t, readOk)
    \/ DismissError

SpecWatermark == InitWatermark /\ [][NextWatermark]_vars

(***************************************************************************)
(* imagesToPDF, called directly.                                           *)
(***************************************************************************)
\* the lists of up to MaxImages image files, named 1, 2, ... in the order of
\* the list, each with what happens to it
ImageLists ==
    {[k \in 1..Len(outcomes) |-> [name |-> k, outcome |-> outcomes[k]]] :
        outcomes \in SeqsUpTo({"embedded", "rejected", "unreadable"}, MaxImages)}

InitImages ==
    /\ files = <<>>
    /\ activeTool = "image-to-pdf"
    /\ isProcessing = FALSE
    /\ error = NoError
    /\ splitRanges = <<>>
    /\ conversionProgress = NoProgress
    /\ interactionState = NoSession
    /\ draggingPageIndex = NoDrag
    /\ tasks = <<>>
    /\ \E imageFiles \in ImageLists : opIn = Call("imagesToPDF", Len(imageFiles), imageFiles)
    /\ lastOp = Op("none", TRUE, <<>>, NoOutput)

\* lastOp.arg: what console.error was given, lastOp.out: the document
CallImagesToPDF ==
    LET result == imagesToPDF(opIn.arg)
    IN  /\ opIn.fn = "imagesToPDF"
        /\ lastOp.op = "none"
        /\ lastOp' = Op("imagesToPDF", result.ok, result.logged,
                        IF result.ok THEN Returned(result.pages) ELSE Thrown)
        /\ UNCHANGED <<files, activeTool, isProcessing, error, splitRanges,
                       conversionProgress, interactionState, draggingPageIndex, tasks, opIn>>

NextImages == CallImagesToPDF

SpecImages == InitImages /\ [][NextImages]_vars

(***************************************************************************)
(* The page loops of getPageThumbnails, pdfToImagesZip and                 *)
(* extractTextFromPdf, one step at a time.  tasks holds the running call   *)
(* (current = pages finished, arg = where the loop stands), lastOp.arg the *)
(* onProgress calls made so far, lastOp.out the canvases: those created    *)
(* and not yet set to 0 x 0, and those set to 0 x 0.                       *)
(***************************************************************************)
StreamOps == {"getPageThumbnails", "pdfToImagesZip", "extractTextFromPdf"}

RenderOps == {"getPageThumbnails", "pdfToImagesZip"}

NoCanvases == [live |-> {}, released |-> {}]

\* an onProgress call sent with the page one before the page just finished
onProgressZeroBased(i, numPages) == <<i - 1, numPages>>

\* onProgress(i, numPages)
onProgress(i, numPages) == <<i, numPages>>

InitStream ==
    /\ files = <<>>
    /\ activeTool = "pdf-to-image"
    /\ isProcessing = FALSE
    /\ error = NoError
    /\ splitRanges = <<>>
    /\ conversionProgress = NoProgress
    /\ interactionState = NoSession
    /\ draggingPageIndex = NoDrag
    /\ tasks = <<>>
    /\ \E fn \in StreamOps, numPages \in 0..MaxOpPages : opIn = Call(fn, numPages, <<>>)
    /\ lastOp = Op("none", TRUE, <<>>, NoCanvases)

\* the call was made and has returned or thrown
StreamEnded == lastOp.op \in StreamOps /\ tasks = <<>>

\* file.arrayBuffer() and getDocument(...).promise
StreamOpen(readOk) ==
    /\ opIn.fn \in StreamOps
    /\ lastOp.op = "none"
    /\ tasks' = IF readOk THEN <<Task(opIn.fn, 0, opIn.pageCount, "loop")>> ELSE <<>>
    /\ lastOp' = Op(opIn.fn, readOk, <<>>, NoCanvases)
    /\ UNCHANGED <<files, activeTool, isProcessing, error, splitRanges,
                   conversionProgress, interactionState, draggingPageIndex, opIn>>

\* a turn of a rendering loop up to await page.render: getPage, createElement,
\* getContext, the canvas sized to the viewport
StreamCanvas(outcome) ==
    LET task == tasks[1]
        i == task.current + 1
    IN  /\ tasks # <<>>
        /\ task.kind \in RenderOps
        /\ task.arg = "loop"
        /\ i <= task.pageCount
        /\ CASE outcome = "getPage rejects" ->
                    /\ tasks' = <<>>
                    /\ lastOp' = [lastOp EXCEPT !.ok = FALSE]
             [] outcome = "no context" ->
                    /\ tasks' = <<>>
                    /\ lastOp' = [lastOp EXCEPT !.ok = FALSE,
                                                !.out.live = lastOp.out.live \cup {i}]
             [] OTHER ->
                    /\ tasks' = <<[task EXCEPT !.arg = "render"]>>
                    /\ lastOp' = [lastOp EXCEPT !.out.live = lastOp.out.live \cup {i}]
        /\ UNCHANGED <<files, activeTool, isProcessing, error, splitRanges,
                       conversionProgress, interactionState, draggingPageIndex, opIn>>

\* the rest of the turn: page.render settles; then toDataURL, onProgress and
\* canvas.width = 0, canvas.height = 0
StreamRender(renderOk) ==
    LET task == tasks[1]
        i == task.current + 1
    IN  /\ tasks # <<>>
        /\ task.kind \in RenderOps
        /\ task.arg = "render"
        /\ IF renderOk
           THEN /\ tasks' = <<[task EXCEPT !.current = i, !.arg = "loop"]>>
                /\ lastOp' = [lastOp EXCEPT
                                !.arg = Append(lastOp.arg, onProgress(i, task.pageCount)),
                                !.out = [live |-> lastOp.out.live \ {i},
                                         released |-> lastOp.out.released \cup {i}]]
           ELSE /\ tasks' = <<>>
                /\ lastOp' = [lastOp EXCEPT !.ok = FALSE]
        /\ UNCHANGED <<files, activeTool, isProcessing, error, splitRanges,
                       conversionProgress, interactionState, draggingPageIndex, opIn>>

\* a turn of the loop of extractTextFromPdf: getPage, getTextContent, onProgress
StreamText(pageOk) ==
    LET task == tasks[1]
        i == task.current + 1
    IN  /\ tasks # <<>>
        /\ task.kind = "extractTextFromPdf"
        /\ i <= task.pageCount
        /\ IF pageOk
           THEN /\ tasks' = <<[task EXCEPT !.current = i]>>
                /\ lastOp' = [lastOp EXCEPT
                                !.arg = Append(lastOp.arg, onProgress(i, task.pageCount))]
           ELSE /\ tasks' = <<>>
                /\ lastOp' = [lastOp EXCEPT !.ok = FALSE]
        /\ UNCHANGED <<files, activeTool, isProcessing, error, splitRanges,
                       conversionProgress, interactionState, draggingPageIndex, opIn>>

\* the loop is over: return thumbnails / the zip / fullText
StreamReturn ==
    /\ tasks # <<>>
    /\ tasks[1].kind \in StreamOps
    /\ tasks[1].arg = "loop"
    /\ tasks[1].current = tasks[1].pageCount
    /\ tasks' = <<>>
    /\ UNCHANGED <<files, activeTool, isProcessing, error, splitRanges, conversionProgress,
                   interactionState, draggingPageIndex, opIn, lastOp>>

NextStream ==
    \/ \E readOk \in BOOLEAN : StreamOpen(readOk)
    \/ \E outcome \in {"getPage rejects", "no context", "canvas"} : StreamCanvas(outcome)
    \/ \E renderOk \in BOOLEAN : StreamRender(renderOk)
    \/ \E pageOk \in BOOLEAN : StreamText(pageOk)
    \/ StreamReturn

SpecStream == InitStream /\ [][NextStream]_vars

(***************************************************************************)
(* The uploader of the merge tool and of the image tool.  The uploader is  *)
(* rendered while isProcessing, and with an empty workspace there is no    *)
(* overlay: files can be dropped, and the sidebar clicked, while an        *)
(* ingestion is suspended at its await.                                    *)
(***************************************************************************)
\* the File objects dropped: a PDF, an image and a file of neither kind
IngestInputFiles ==
    { [mime |-> "application/pdf", pages |-> 1, oversize |-> FALSE],
      [mime |-> "image/png", pages |-> 1, oversize |-> FALSE],
      [mime |-> "text/plain", pages |-> 1, oversize |-> FALSE] }

IngestTools == {"merge", "image-to-pdf"}

NextIngest ==
    \/ /\ InFlight < MaxInFlight
       /\ ~OverlayShown
       /\ \E newFiles \in SeqsUpTo(IngestInputFiles, MaxDrop) \ {<<>>} :
              HandleFilesAddedStart(newFiles)
    \/ \E t \in 1..Len(tasks), codecOk \in BOOLEAN : HandleFilesAddedFinish(t, codecOk)
    \/ ~OverlayShown /\ \E id \in FileIds : RemoveFile(id)
    \/ ~OverlayShown /\ ClearWorkspace
    \/ ~OverlayShown /\ \E tool \in IngestTools : NavButton(tool)
    \/ DismissError

SpecIngest == Init /\ [][NextIngest]_vars

(***************************************************************************)
(* The three handlers that stream progress: handleStartThumbnailOperation, *)
(* handleConvertToImages and handleExtractText, each with no other handler *)
(* in flight.  A promise awaited by a handler settles, and React runs the  *)
(* continuation: the steps of a handler in flight are weakly fair.         *)
(***************************************************************************)
StreamingTools == {"reorder", "pdf-to-image", "pdf-to-text"}

InitStreaming ==
    /\ files = <<[id |-> 1, type |-> "pdf", pageCount |-> 3],
                 [id |-> 2, type |-> "pdf", pageCount |-> 1]>>
    /\ activeTool \in StreamingTools
    /\ isProcessing = FALSE
    /\ error = NoError
    /\ splitRanges = <<>>
    /\ conversionProgress = NoProgress
    /\ interactionState = NoSession
    /\ draggingPageIndex = NoDrag
    /\ tasks = <<>>
    /\ opIn = NoCall
    /\ lastOp = Op("none", TRUE, <<>>, NoOutput)

\* handleConvertToImages up to its await ("Package ZIP" of a file)
HandleConvertToImagesStart(fileId) ==
    /\ Len(files) > 0
    /\ activeTool = "pdf-to-image"
    /\ fileId \in FileIds
    /\ isProcessing' = TRUE
    /\ tasks' = Append(tasks, Task("pdfToImagesZip", fileId, Find(fileId).pageCount, <<>>))
    /\ lastOp' = Op("convert:start", TRUE, <<>>, NoOutput)
    /\ UNCHANGED <<files, activeTool, error, splitRanges, conversionProgress,
                   interactionState, draggingPageIndex, opIn>>

\* handleExtractText up to its await ("Extract Text" of a file; the button
\* is shown while the file has no extracted text)
HandleExtractTextStart(fileId) ==
    /\ Len(files) > 0
    /\ activeTool = "pdf-to-text"
    /\ fileId \in FileIds
    /\ isProcessing' = TRUE
    /\ tasks' = Append(tasks, Task("extractTextFromPdf", fileId, Find(fileId).pageCount, <<>>))
    /\ lastOp' = Op("extract:start", TRUE, <<>>, NoOutput)
    /\ UNCHANGED <<files, activeTool, error, splitRanges, conversionProgress,
                   interactionState, draggingPageIndex, opIn>>

\* pdfToImagesZip / extractTextFromPdf: one turn of the page loop, ending in
\* the handler's onProgress callback
ConversionPage(t) ==
    LET task == tasks[t]
    IN  /\ task.kind \in {"pdfToImagesZip", "extractTextFromPdf"}
        /\ task.current < task.pageCount
        /\ tasks' = [tasks EXCEPT ![t].current = task.current + 1]
        /\ conversionProgress' =
               SetKey(conversionProgress, task.fileId,
                      [current |-> task.current + 1, total |-> task.pageCount])
        /\ lastOp' = Op("conversion:page", TRUE, <<>>, NoOutput)
        /\ UNCHANGED <<files, activeTool, isProcessing, error, splitRanges,
                       interactionState, draggingPageIndex, opIn>>

\* a finally block that leaves the progress entry behind
ConversionFinallyKeepingEntry(t) ==
    /\ isProcessing' = FALSE
    /\ conversionProgress' = conversionProgress
    /\ tasks' = RemoveAt(tasks, t)

\* the finally block of handleConvertToImages and of handleExtractText
ConversionFinally(t) ==
    /\ isProcessing' = FALSE
    /\ conversionProgress' = DeleteKey(conversionProgress, tasks[t].fileId)
    /\ tasks' = RemoveAt(tasks, t)

\* handleConvertToImages from the await on: the zip is downloaded, or the
\* operation has thrown (at any page, or when the zip is generated)
HandleConvertToImagesFinish(t, ok) ==
    LET task == tasks[t]
    IN  /\ task.kind = "pdfToImagesZip"
        /\ ok => task.current = task.pageCount
        /\ error' = IF ok THEN error ELSE "Failed to convert."
        /\ ConversionFinally(t)
        /\ lastOp' = Op("convert", ok, <<task.fileId>>, NoOutput)
        /\ UNCHANGED <<files, activeTool, splitRanges, interactionState,
                       draggingPageIndex, opIn>>

\* handleExtractText from the await on: the text is kept, or the operation
\* has thrown
HandleExtractTextFinish(t, ok) ==
    LET task == tasks[t]
    IN  /\ task.kind = "extractTextFromPdf"
        /\ IF ok THEN task.current = task.pageCount ELSE task.current < task.pageCount
        /\ error' = IF ok THEN error ELSE "Extraction failed."
        /\ ConversionFinally(t)
        /\ lastOp' = Op("extract", ok, <<task.fileId>>, NoOutput)
        /\ UNCHANGED <<files, activeTool, splitRanges, interactionState,
                       draggingPageIndex, opIn>>

\* a step of a handler in flight
StreamingStep ==
    \E t \in 1..Len(tasks) :
        \/ ThumbnailPage(t)
        \/ ThumbnailDone(t)
        \/ ThumbnailFail(t)
        \/ ConversionPage(t)
        \/ \E ok \in BOOLEAN : HandleConvertToImagesFinish(t, ok)
        \/ \E ok \in BOOLEAN : HandleExtractTextFinish(t, ok)

NextStreaming ==
    \/ SingleFlight /\ \E fileId \in FileIds : HandleStartThumbnailOperationStart(fileId)
    \/ SingleFlight /\ \E fileId \in FileIds : HandleConvertToImagesStart(fileId)
    \/ SingleFlight /\ \E fileId \in FileIds : HandleExtractTextStart(fileId)
    \/ StreamingStep
    \/ OnCancelInteraction
    \/ ClearWorkspace
    \/ \E tool \in StreamingTools : NavButton(tool)
    \/ DismissError

SpecStreaming == InitStreaming /\ [][NextStreaming]_vars /\ WF_vars(StreamingStep)

(***************************************************************************)
(* The reorder grid with handlers overlapping.  No start button and no     *)
(* commit button is disabled while isProcessing, and the overlay takes no  *)
(* keyboard focus: a second handler can be started from the keyboard while *)
(* the first one is suspended at its await.                                *)
(***************************************************************************)
\* the App with a 4-page and a 2-page PDF in the workspace of the reorder tool
InitOverlap ==
    /\ files = <<[id |-> 1, type |-> "pdf", pageCount |-> 4],
                 [id |-> 2, type |-> "pdf", pageCount |-> 2]>>
    /\ activeTool = "reorder"
    /\ isProcessing = FALSE
    /\ error = NoError
    /\ splitRanges = <<>>
    /\ conversionProgress = NoProgress
    /\ interactionState = NoSession
    /\ draggingPageIndex = NoDrag
    /\ tasks = <<>>
    /\ opIn = NoCall
    /\ lastOp = Op("none", TRUE, <<>>, NoOutput)

NextOverlap ==
    \/ InFlight < MaxInFlight /\ \E fileId \in FileIds : HandleStartThumbnailOperationStart(fileId)
    \/ \E t \in 1..Len(tasks) : ThumbnailPage(t)
    \/ \E t \in 1..Len(tasks) : ThumbnailDone(t)
    \/ \E t \in 1..Len(tasks) : ThumbnailFail(t)
    \/ \E currIdx \in GridPositions : DragStart(currIdx)
    \/ \E dropIndex \in GridPositions : HandleReorderDrop(dropIndex)
    \/ OnCancelInteraction
    \/ InFlight < MaxInFlight /\ HandleFinishReorderStart
    \/ \E t \in 1..Len(tasks), readOk \in BOOLEAN : HandleFinishReorderFinish(t, readOk)
    \/ DismissError

SpecOverlap == InitOverlap /\ [][NextOverlap]_vars

(***************************************************************************)
(* Properties.                                                             *)
(***************************************************************************)
Session == interactionState

\* C1: a commit whose underlying operation succeeded leaves no session live,
\* in reorder mode and in delete mode.
CommitDestroysSession ==
    (lastOp.op \in {"commitReorder", "commitDelete"} /\ lastOp.ok) => ~SessionLive

\* C2: removePagesFromPDF throws, producing no document, when the indices to
\* delete are empty and when they cover every page.
DeleteRejectsNoneAndAll ==
    (/\ lastOp.op = "removePagesFromPDF"
     /\ \/ opIn.arg = <<>>
        \/ ToSet(Identity(opIn.pageCount)) \subseteq ToSet(opIn.arg))
        => (~lastOp.ok /\ lastOp.out = NoOutput)

\* C3: a split whose range holds no ordinal of the document fails with an
\* error and produces no output document.
SplitRejectsEmptyFilteredRange ==
    (/\ lastOp.op = "split"
     /\ lastOp.arg # <<>>
     /\ \A k \in 1..Len(lastOp.arg) : lastOp.arg[k] \notin 1..files[1].pageCount)
        => (~lastOp.ok /\ lastOp.out = NoOutput /\ error # NoError)

AllDigits(s) == s # <<>> /\ \A k \in 1..Len(s) : IsDigit(s[k])

\* a token that is exactly one integer, or two integers joined by '-'
WellFormed(token) ==
    LET t == trim(token)
    IN  \/ AllDigits(t)
        \/ \E k \in 1..Len(t) :
               /\ t[k] = "-"
               /\ AllDigits(trim(SubSeq(t, 1, k - 1)))
               /\ AllDigits(trim(SubSeq(t, k + 1, Len(t))))

Parts == split(splitRanges, ",")

\* C4: a token that is not exactly one integer or two integers joined by '-'
\* contributes no value to the result.
MalformedTokensDiscarded ==
    \A k \in 1..Len(Parts) : ~WellFormed(Parts[k]) => PartPages(Parts[k]) = <<>>

\* C5: the parser's result is strictly increasing and holds exactly the values
\* its tokens contribute; "1,3,5-10" parses to 1,3,5,6,7,8,9,10.
ParsedPagesAscendingUnion ==
    /\ \A k \in 1..(Len(parsedPages) - 1) : parsedPages[k] < parsedPages[k + 1]
    /\ ToSet(parsedPages) = UNION {ToSet(PartPages(Parts[k])) : k \in 1..Len(Parts)}
    /\ splitRanges = <<"1", ",", "3", ",", "5", "-", "1", "0">> => parsedPages = <<1, 3, 5, 6, 7, 8, 9, 10>>

ParsedOneThreeFiveToTen ==
    splitRanges = <<"1", ",", "3", ",", "5", "-", "1", "0">> /\ Len(parsedPages) = 8

\* the bounds A and B of a token "A-B" of two unsigned integers
RangeBounds(token) ==
    LET t == trim(token)
        k == CHOOSE j \in 1..Len(t) : t[j] = "-"
    IN  <<DecimalValue(trim(SubSeq(t, 1, k - 1))), DecimalValue(trim(SubSeq(t, k + 1, Len(t))))>>

IsRangeToken(token) == WellFormed(token) /\ ~AllDigits(trim(token))

Reversed(token) ==
    LET t == trim(token)
        k == CHOOSE j \in 1..Len(t) : t[j] = "-"
    IN  SubSeq(t, k + 1, Len(t)) \o <<"-">> \o SubSeq(t, 1, k - 1)

\* C6: a token "A-B" contributes every integer from min(A,B) to max(A,B), and
\* "B-A" contributes the same; "5-3" parses to 3,4,5.
RangeBoundsOrderIrrelevant ==
    /\ \A k \in 1..Len(Parts) :
           IsRangeToken(Parts[k]) =>
               LET ab == RangeBounds(Parts[k])
               IN  /\ ToSet(PartPages(Parts[k])) = Min(ab[1], ab[2])..Max(ab[1], ab[2])
                   /\ PartPages(Reversed(Parts[k])) = PartPages(Parts[k])
    /\ splitRanges = <<"5", "-", "3">> => parsedPages = <<3, 4, 5>>

ParsedFiveToThree ==
    splitRanges = <<"5", "-", "3">> /\ Len(parsedPages) = 3

\* position i of the arrangement after the element at p was moved to t
MovedFrom(p, t, i) ==
    IF i = t THEN p
    ELSE IF p < t /\ i \in p..(t - 1) THEN i + 1
    ELSE IF t < p /\ i \in (t + 1)..p THEN i - 1
    ELSE i

\* C7: a drop at targetPosition while dragging position p moves the element
\* at p to targetPosition, shifts the elements in between by one and leaves
\* the others in place; on <<0,1,2,3>>, dragging 0 to 2 yields <<1,2,0,3>>.
DropMovesElement ==
    [][(lastOp'.op = "drop" /\ lastOp'.ok /\ draggingPageIndex \in GridPositions) =>
          LET old == interactionState.pageIndices
              new == interactionState'.pageIndices
              p == draggingPageIndex
              t == lastOp'.arg[2]
          IN  /\ Len(new) = Len(old)
              /\ \A i \in 0..(Len(old) - 1) : new[i + 1] = old[MovedFrom(p, t, i) + 1]
              /\ (old = <<0, 1, 2, 3>> /\ p = 0 /\ t = 2) => new = <<1, 2, 0, 3>>]_vars

DroppedZeroOnTwo ==
    /\ lastOp.op = "drop"
    /\ lastOp.arg = <<0, 2>>
    /\ Session.pageIndices = <<1, 2, 0, 3>>

\* C8: in every state with a live session the arrangement is a permutation of
\* 0..pageCount-1.
ArrangementIsPermutation ==
    SessionLive =>
        /\ Len(Session.pageIndices) = Len(Session.thumbnails)
        /\ ToSet(Session.pageIndices) = 0..(Len(Session.thumbnails) - 1)

\* C9: after cancel nothing of the session remains: no arrangement, selection
\* or thumbnails, and no dragging position.
CancelDiscardsSession ==
    lastOp.op = "cancel" => (Session = NoSession /\ draggingPageIndex = NoDrag)

\* C10: a drag abandoned without a drop leaves the arrangement unchanged and
\* no dragging position recorded.
CancelDragReturnsToLoaded ==
    [][lastOp'.op = "cancelDrag" =>
          (interactionState' = interactionState /\ draggingPageIndex' = NoDrag)]_vars

\* C11: a session is only ever created from Idle: the step that opens a
\* session starts in a state without a live session, so a live session is
\* never replaced without having been cancelled or committed.
OpenOnlyFromIdle ==
    [][(lastOp'.op = "open" /\ lastOp'.ok) => ~SessionLive]_vars

\* C12: when the operation under a commit fails (the step on which the
\* suspended commit handler ends without a result), the session is left as
\* it was, arrangement and selection included, and an error is shown.
CommitFailureKeepsSession ==
    [][(/\ lastOp'.op \in {"commitReorder", "commitDelete"}
        /\ ~lastOp'.ok
        /\ Len(tasks') < Len(tasks))
          => (/\ interactionState' = interactionState
              /\ error' \in {"Failed to reorder PDF pages.", "Failed to remove pages."})]_vars

\* a delete commit has failed in removePagesFromPDF and the session, with its
\* selection, is still there
DeleteCommitFailedSessionKept ==
    /\ lastOp.op = "commitDelete"
    /\ ~lastOp.ok
    /\ error = "Failed to remove pages."
    /\ SessionLive
    /\ interactionState.selectedIndices # {}

ToggleFlipsOneIndex ==
    [][lastOp'.op = "toggle"
          => LET origIdx == lastOp'.arg[1]
                 before == interactionState.selectedIndices
                 after == interactionState'.selectedIndices
             IN  IF activeTool = "delete-pages"
                 THEN /\ lastOp'.ok
                      /\ (origIdx \in after) <=> (origIdx \notin before)
                      /\ after \ {origIdx} = before \ {origIdx}
                      /\ ToggleIndex(after, origIdx) = before
                      /\ SessionLive'
                      /\ interactionState'.fileId = interactionState.fileId
                      /\ interactionState'.pageIndices = interactionState.pageIndices
                      /\ interactionState'.thumbnails = interactionState.thumbnails
                 ELSE /\ ~lastOp'.ok
                      /\ interactionState' = interactionState]_vars

\* a page that was selected has just been clicked again while another page
\* stays selected
ToggledBackOff ==
    /\ lastOp.op = "toggle"
    /\ lastOp.ok
    /\ activeTool = "delete-pages"
    /\ lastOp.arg[1] \notin interactionState.selectedIndices
    /\ interactionState.selectedIndices # {}

\* C16: a document returned by removePagesFromPDF, called directly or by the
\* commit of a delete session, holds exactly the pages whose index is not in
\* the given indices, in ascending (original) order; when the indices cover
\* all pages but one, the direct call succeeds and the document has one page.
DeleteKeepsComplement ==
    LET direct == lastOp.op = "removePagesFromPDF"
        pageCount == IF direct THEN opIn.pageCount ELSE files[1].pageCount
        given == IF direct THEN ToSet(opIn.arg) ELSE ToSet(lastOp.arg)
        pages == lastOp.out.pages
        allButOne == Cardinality(given \cap (0..(pageCount - 1))) = pageCount - 1
    IN  lastOp.op \in {"removePagesFromPDF", "commitDelete"}
            => /\ lastOp.ok
                   => /\ \A k \in 1..(Len(pages) - 1) : pages[k] < pages[k + 1]
                      /\ ToSet(pages) = (0..(pageCount - 1)) \ given
               /\ (direct /\ allButOne) => lastOp.ok
               /\ (lastOp.ok /\ allButOne) => Len(pages) = 1

\* the delete session of a 5-page file was committed with pages 1 and 3
\* selected, giving pages 0, 2, 4
CommittedDeleteOfOneAndThree ==
    /\ lastOp.op = "commitDelete"
    /\ lastOp.ok
    /\ files[1].pageCount = 5
    /\ lastOp.arg = <<1, 3>>
    /\ lastOp.out.pages = <<0, 2, 4>>

\* C17: reordering a document by a permutation of its page indices and then
\* reordering the result by the inverse permutation succeeds and gives the
\* pages of the document in their original order.
ReorderThenInverseRestores ==
    lastOp.op = "reorderPDFPages:back"
        => (lastOp.ok /\ lastOp.out.pages = Identity(opIn.pageCount))

\* a 3-page document was reordered to pages 2, 0, 1 and back
ReorderedTwoZeroOneAndBack ==
    /\ lastOp.op = "reorderPDFPages:back"
    /\ opIn.arg = <<2, 0, 1>>
    /\ lastOp.arg = <<1, 2, 0>>
    /\ lastOp.out.pages = <<0, 1, 2>>

\* C18: a document returned by a split holds exactly the pages at the
\* ordinals of the parsed range that lie in 1..pageCount, in ascending order;
\* the parsed range itself still holds every integer that was typed, whether
\* or not the document has such a page.
SplitKeepsOrdinalsInBounds ==
    LET pageCount == files[1].pageCount
        pages == lastOp.out.pages
    IN  /\ (lastOp.op = "split" /\ lastOp.ok)
               => /\ \A k \in 1..(Len(pages) - 1) : pages[k] < pages[k + 1]
                  /\ ToSet(pages) = {o - 1 : o \in ToSet(lastOp.arg) \cap (1..pageCount)}
        /\ \A k \in 1..Len(Parts) :
               AllDigits(Parts[k]) => DecimalValue(Parts[k]) \in ToSet(parsedPages)

\* "2,4" was extracted from the 5-page document
SplitTwoAndFour ==
    /\ lastOp.op = "split"
    /\ lastOp.ok
    /\ files[1].pageCount = 5
    /\ lastOp.arg = <<2, 4>>
    /\ lastOp.out.pages = <<1, 3>>

\* C19: a document returned by a merge, called directly or by the button,
\* holds the pages of the first listed file in their own order, then those of
\* the second, and so on; its page count is the sum of the files' page counts.
MergeConcatenates ==
    LET listed == lastOp.arg
        pages == lastOp.out.pages
        RECURSIVE PagesBefore(_)
        PagesBefore(j) == IF j = 1 THEN 0 ELSE PagesBefore(j - 1) + listed[j - 1].pageCount
    IN  (lastOp.op \in {"mergePDFs", "merge"} /\ lastOp.ok)
            => /\ Len(pages) = PagesBefore(Len(listed) + 1)
               /\ \A j \in 1..Len(listed) : \A i \in 1..listed[j].pageCount :
                      pages[PagesBefore(j) + i] = <<listed[j].id, i - 1>>

\* file 1 of two pages and file 2 of one page were merged by the button
MergedTwoPagesAndOnePage ==
    /\ lastOp.op = "merge"
    /\ lastOp.ok
    /\ lastOp.arg = <<[id |-> 1, pageCount |-> 2], [id |-> 2, pageCount |-> 1]>>
    /\ lastOp.out.pages = <<<<1, 0>>, <<1, 1>>, <<2, 0>>>>

\* C20: a merge of fewer than two files fails: it returns no document, and
\* when it is the button's merge an error is shown.
MergeRejectsFewerThanTwo ==
    (lastOp.op \in {"mergePDFs", "merge"} /\ Len(lastOp.arg) < 2)
        => (/\ ~lastOp.ok
            /\ lastOp.out = NoOutput
            /\ (lastOp.op = "merge" => error # NoError))

\* C21: splitToIndividualFiles on a file of N pages returns N documents, the
\* k-th holding just the k-th page of the file, and mergePDFs of them in that
\* order returns the pages of the file in their order.
SinglesThenMergeRestores ==
    LET srcPages == opIn.arg
        out == lastOp.out.pages
    IN  /\ lastOp.op = "splitToIndividualFiles"
               => /\ lastOp.ok
                  /\ Len(out) = opIn.pageCount
                  /\ \A k \in 1..Len(out) : out[k] = <<srcPages[k]>>
        /\ lastOp.op = "mergePDFs:singles"
               => (lastOp.ok /\ out = srcPages)

\* the file with the pages 2, 0, 1 was split into three and merged again
MergedSinglesOfTwoZeroOne ==
    /\ lastOp.op = "mergePDFs:singles"
    /\ opIn.arg = <<2, 0, 1>>
    /\ lastOp.out.pages = <<2, 0, 1>>

WatermarkRejectsBlankText ==
    (lastOp.op \in {"applyWatermarkToPDF", "watermark"} /\ trim(opIn.arg) = <<>>)
        => (/\ ~lastOp.ok
            /\ lastOp.out = NoOutput
            /\ (lastOp.op = "watermark" => error # NoError))

ProgressCountsEveryPageOnce ==
    LET events == lastOp.arg
        N == opIn.pageCount
    IN  lastOp.op \in StreamOps
            => /\ events = [k \in 1..Len(events) |-> <<k, N>>]
               /\ Len(events) <= N
               /\ (StreamEnded /\ lastOp.ok) => Len(events) = N

\* a text extraction of three pages has run to completion
ExtractedThreePages ==
    /\ StreamEnded
    /\ lastOp.ok
    /\ lastOp.op = "extractTextFromPdf"
    /\ lastOp.arg = <<(<<1, 3>>), (<<2, 3>>), (<<3, 3>>)>>

\* C26: while thumbnails or page images are made at most one canvas is live,
\* and once the operation has ended, by returning or by throwing, every
\* canvas it created has been released.
CanvasesReleased ==
    lastOp.op \in RenderOps
        => /\ Cardinality(lastOp.out.live) <= 1
           /\ StreamEnded => lastOp.out.live = {}

\* C27: isProcessing is TRUE in every state in which a handler is suspended
\* at its await, so no handler that finishes clears it while another one is
\* still running.
ProcessingWhileInFlight == InFlight > 0 => isProcessing

\* C28: every file of the workspace is of the kind of the active tool: an
\* image under image-to-pdf, a PDF under every other tool.
WorkspaceMatchesTool ==
    \A k \in 1..Len(files) :
        files[k].type = (IF activeTool = "image-to-pdf" THEN "image" ELSE "pdf")

\* C29: whenever a session is live, its fileId is the id of a file of the
\* workspace.
LiveSessionFileInWorkspace == SessionLive => interactionState.fileId \in FileIds

\* the handlers in flight that stream the pages of file id
StreamingOn(id) == \E t \in 1..Len(tasks) : tasks[t].fileId = id

\* C30: a streaming operation started for a file eventually ends, by success
\* or by failure, with the progress entry of the file removed and
\* isProcessing cleared; and a file with no operation in flight never has a
\* progress entry.
StreamingEndsClean ==
    /\ [](\A id \in DOMAIN conversionProgress : StreamingOn(id))
    /\ \A id \in 1..MaxFiles :
          StreamingOn(id) ~> (/\ ~StreamingOn(id)
                              /\ id \notin DOMAIN conversionProgress
                              /\ ~isProcessing)

\* the images of the three pages of file 1 were packaged
ConvertedFileOne ==
    /\ lastOp = Op("convert", TRUE, <<1>>, NoOutput)
    /\ tasks = <<>>
    /\ ~isProcessing
    /\ conversionProgress = NoProgress

====
